---- MODULE Spec2Model ----
(***************************************************************************)
(* nue: the Edit-Plan Synthesizer (src/brain/analyze.py) and the Trend     *)
(* Knowledge-Base Builder (src/trend_watcher/main.py).                     *)
(*                                                                         *)
(* Specifications:                                                         *)
(*   SpecMerge    merge_instructions as a function of its two arguments    *)
(*   SpecBgm      the background-music selection of process_video          *)
(*   SpecPlanner  the Planner: file events through on_created              *)
(*   SpecCrawl    the Crawler: successive invocations of main/crawl        *)
(*   Spec         a run of either program                                  *)
(***************************************************************************)
EXTENDS Integers, Sequences, FiniteSets, TLC

VARIABLES
    m_pc,       \* SpecMerge: "input" before the call, "merged" after it
    m_ai,       \* SpecMerge: ai_data as passed to merge_instructions
    m_mi,       \* SpecMerge: manual_instructions as passed
    m_out,      \* SpecMerge: what the call produced (value or exception)
    s_pc,       \* SpecBgm: "input" before the selection, "selected" after it
    s_mood,     \* SpecBgm: the plan's editing_style.mood as generated
    s_files,    \* SpecBgm: names of the files present under BGM_DIR
    s_category, \* SpecBgm: the category the selection settled on
    s_bgm,      \* SpecBgm: the selected bgm_path
    proc,       \* which program runs: "planner" (brain/analyze.py),
                \* "crawler" (trend_watcher/main.py) or "none"
    API_KEY,    \* whether GEMINI_API_KEY is set
    kb_exists,  \* whether /app/data/trends.db exists
    source_videos,  \* KB table source_videos: its rows, oldest first
    styles,     \* KB table styles: its rows, oldest first
    assets,     \* KB table assets: its rows, oldest first
    bgm_files,  \* names of the files under BGM_DIR
    json_files, \* names of the edit-plan files under JSON_DIR
    remote_files,   \* uploads the analysis service still holds
    p_pc,       \* Planner: where the event-delivery thread is
    p_delivered,    \* Planner: events delivered to on_created so far
    p_done,     \* Planner: calls of on_created that have returned
    p_file,     \* Planner: filename of the video being processed
    p_meta,     \* Planner: metadata of that video (EmptyDict for None)
    p_job,      \* Planner: video_file.state.name
    p_resolved, \* Planner: what fetch_latest_style returned
    p_event,    \* Planner: the event of the latest on_created call
    p_calls,    \* Planner: number of process_video calls made so far
    p_plan,     \* Planner: the plan the current call wrote (EmptyDict: none)
    p_run,      \* Planner: what the current process_video call has done
    p_log,      \* Planner: log records the current on_created call emitted
    p_raised,   \* Planner: calls of process_video that raised so far
    samples,    \* Crawler: files under /app/data/raw/trend_samples
    c_pc,       \* Crawler: where the program is
    c_crawls,   \* Crawler: invocations of `crawl` started so far
    c_found,    \* Crawler: entries the search of this invocation returned
    c_results,  \* Crawler: the entries of result['entries'] not yet reached
    c_rows0,    \* Crawler: source_videos rows when this invocation started
    c_remaining,    \* Crawler: entries the loop has not reached yet
    c_entry,    \* Crawler: the search result being processed
    c_job,      \* Crawler: video_file.state.name in analyze_video
    c_style,    \* Crawler: what analyze_video returned
    c_queue,    \* Crawler: asset searches still to make for the entry
    c_harvest,  \* Crawler: what the download_asset call just made did
    c_run,      \* Crawler: what has been done for the entry
    c_log,      \* Crawler: log records since the loop moved to this entry
    dl_count    \* Crawler: video id -> sample downloads and analyses so far

mergeVars == <<m_pc, m_ai, m_mi, m_out>>
bgmVars == <<s_pc, s_mood, s_files, s_category, s_bgm>>
kbVars == <<kb_exists, source_videos, styles, assets>>
plannerVars == <<bgm_files, json_files, p_pc, p_delivered, p_done, p_file,
                 p_meta, p_job, p_resolved, p_plan, p_run, p_log, p_raised,
                 p_event, p_calls>>
crawlerVars == <<samples, c_pc, c_crawls, c_found, c_results, c_rows0,
                 c_remaining, c_entry, c_job,
                 c_style, c_queue, c_harvest, c_run, c_log, dl_count>>
vars == <<mergeVars, bgmVars, proc, API_KEY, kbVars, remote_files, plannerVars,
          crawlerVars>>

(***************************************************************************)
(* Bounds of the model.                                                    *)
(***************************************************************************)
MaxCuts == 2            \* cuts in a machine-generated plan
MaxInstructions == 3    \* manual cuts + captions + effects of one metadata file
MaxBgmFiles == 2        \* files present in the background-music library
MaxEvents == 2          \* file-system events delivered to the Planner
MaxCrawls == 2          \* invocations of the Crawler
MaxResults == 2         \* entries of one search result (--limit)

(***************************************************************************)
(* Python values.                                                          *)
(***************************************************************************)
\* dict: a function from keys to values; `k in d`, d.get(k, default),
\* d[k] = v.
HasKey(d, k) == k \in DOMAIN d
Get(d, k, default) == IF k \in DOMAIN d THEN d[k] ELSE default
SetKey(d, k, v) == [x \in (DOMAIN d) \cup {k} |-> IF x = k THEN v ELSE d[x]]
EmptyDict == <<>>

\* All subsets of S with at most n elements.
RECURSIVE SubsetsUpTo(_, _)
SubsetsUpTo(S, n) ==
    IF n = 0 THEN {{}}
    ELSE LET P == SubsetsUpTo(S, n - 1) IN P \cup {F \cup {x} : F \in P, x \in S}

\* All sequences over S of length at most n.
SeqUpTo(S, n) == UNION {[1..k -> S] : k \in 0..n}

\* Code points of the characters a timestamp is written with.
CodePoint ==
    [c \in {"0", "1", "2", "3", "4", "5", "6", "7", "8", "9", ":"} |->
        CASE c = "0" -> 48 [] c = "1" -> 49 [] c = "2" -> 50 [] c = "3" -> 51
          [] c = "4" -> 52 [] c = "5" -> 53 [] c = "6" -> 54 [] c = "7" -> 55
          [] c = "8" -> 56 [] c = "9" -> 57 [] c = ":" -> 58]

\* Python's < on str: lexicographic by code point, a proper prefix is less.
RECURSIVE StrLess(_, _)
StrLess(a, b) ==
    IF Len(b) = 0 THEN FALSE
    ELSE IF Len(a) = 0 THEN TRUE
    ELSE LET ca == CodePoint[SubSeq(a, 1, 1)]
             cb == CodePoint[SubSeq(b, 1, 1)]
         IN  IF ca # cb THEN ca < cb
             ELSE StrLess(SubSeq(a, 2, Len(a)), SubSeq(b, 2, Len(b)))

\* Python's <= and >= on str.
StrLeq(a, b) == a = b \/ StrLess(a, b)
StrGeq(a, b) == StrLeq(b, a)

\* str.lower() on the letters A-Z.
UpperLetters == "ABCDEFGHIJKLMNOPQRSTUVWXYZ"
LowerLetters == "abcdefghijklmnopqrstuvwxyz"
LowerChar(c) ==
    IF \E i \in 1..Len(UpperLetters) : SubSeq(UpperLetters, i, i) = c
    THEN LET i == CHOOSE i \in 1..Len(UpperLetters) : SubSeq(UpperLetters, i, i) = c
         IN  SubSeq(LowerLetters, i, i)
    ELSE c

\* The characters of str from position i on, in lower case.
RECURSIVE LowerFrom(_, _)
LowerFrom(str, i) ==
    IF i > Len(str) THEN ""
    ELSE LowerChar(SubSeq(str, i, i)) \o LowerFrom(str, i + 1)

Lower(str) == LowerFrom(str, 1)

\* str.endswith(suffix)
EndsWith(str, suffix) ==
    /\ Len(str) >= Len(suffix)
    /\ SubSeq(str, Len(str) - Len(suffix) + 1, Len(str)) = suffix

\* Optional values: None and a present value.
None == [some |-> FALSE]
Some(v) == [some |-> TRUE, v |-> v]

\* `return None, None` of fetch_latest_style.
NoStyle == [raised |-> FALSE, style |-> None, bgm_path |-> None]

\* Python's `sub in str`.
Contains(sub, str) ==
    \E i \in 1..(Len(str) - Len(sub) + 1) : SubSeq(str, i, i + Len(sub) - 1) = sub

(***************************************************************************)
(* merge_instructions.  The function mutates ai_data in place and may      *)
(* raise KeyError part-way: a result carries the (possibly partly merged)  *)
(* ai_data and whether an exception left the function.                     *)
(***************************************************************************)
Returned(d) == [raised |-> FALSE, data |-> d]
Raised(d) == [raised |-> TRUE, data |-> d]

\* The variables of a specification that is not the one running.
MergeIdle ==
    /\ m_pc = "off"
    /\ m_ai = EmptyDict
    /\ m_mi = EmptyDict
    /\ m_out = Returned(EmptyDict)

BgmIdle ==
    /\ s_pc = "off"
    /\ s_mood = ""
    /\ s_files = {}
    /\ s_category = ""
    /\ s_bgm = ""

\* No event has been delivered to on_created.
NoEvent == [is_directory |-> FALSE, file_name |-> ""]

\* What a process_video call has done so far.
NewRun ==
    [uploaded |-> FALSE, failed |-> FALSE, ready |-> FALSE,
     generated |-> FALSE, parsed |-> FALSE, merge_called |-> FALSE,
     written |-> FALSE, delete_attempted |-> FALSE, error |-> ""]

PlannerIdle ==
    /\ bgm_files = {}
    /\ json_files = {}
    /\ p_pc = "off"
    /\ p_delivered = 0
    /\ p_done = 0
    /\ p_file = ""
    /\ p_meta = EmptyDict
    /\ p_job = ""
    /\ p_resolved = NoStyle
    /\ p_event = NoEvent
    /\ p_calls = 0
    /\ p_plan = EmptyDict
    /\ p_run = NewRun
    /\ p_log = {}
    /\ p_raised = 0

\* The ids of the videos the platform search can return.
VideoIds == {"v1", "v2"}

\* No download_asset call has just been made.
NoHarvest == [outcome |-> "none"]

\* What has been done for a crawl entry so far.
NewEntryRun ==
    [uploaded |-> FALSE, failed |-> FALSE, generated |-> FALSE,
     delete_attempted |-> FALSE, response_ok |-> FALSE, persisted |-> FALSE,
     harvests |-> 0]

CrawlerIdle ==
    /\ samples = {}
    /\ c_pc = "off"
    /\ c_crawls = 0
    /\ c_found = 0
    /\ c_results = <<>>
    /\ c_rows0 = 0
    /\ c_remaining = 0
    /\ c_entry = EmptyDict
    /\ c_job = ""
    /\ c_style = [json |-> "null"]
    /\ c_queue = <<>>
    /\ c_harvest = NoHarvest
    /\ c_run = NewEntryRun
    /\ c_log = {}
    /\ dl_count = [id \in VideoIds |-> [downloads |-> 0, analyses |-> 0]]

\* Neither program runs (the specifications of single functions).
SystemOff ==
    /\ proc = "none"
    /\ API_KEY = FALSE
    /\ kb_exists = FALSE
    /\ source_videos = <<>>
    /\ styles = <<>>
    /\ assets = <<>>
    /\ remote_files = {}
    /\ PlannerIdle
    /\ CrawlerIdle

\* The condition of the list comprehension: the cut falls within the
\* manual cut's time frame.
FallsWithin(cut, manual_cut) ==
    /\ StrGeq(cut.start_time, manual_cut.start)
    /\ StrLeq(cut.end_time, manual_cut.end)

\* Evaluating the comprehension raises KeyError: "start" is read for every
\* cut, "end" only when the first comparison is true.
FilterRaises(cuts, manual_cut) ==
    \E i \in 1..Len(cuts) :
        \/ ~HasKey(manual_cut, "start")
        \/ /\ StrGeq(cuts[i].start_time, manual_cut.start)
           /\ ~HasKey(manual_cut, "end")

\* Mutant of RemoveWithin: an overlap rule instead of the containment rule.
RemoveOverlapping(cuts, manual_cut) ==
    SelectSeq(cuts, LAMBDA cut : ~(/\ StrLeq(cut.start_time, manual_cut.end)
                                   /\ StrGeq(cut.end_time, manual_cut.start)))

RemoveWithin(cuts, manual_cut) ==
    SelectSeq(cuts, LAMBDA cut : ~FallsWithin(cut, manual_cut))

\* "Apply manual cuts": one pass of the comprehension per manual cut whose
\* action is "remove".
RECURSIVE ApplyManualCuts(_, _)
ApplyManualCuts(ai_data, manual_cuts) ==
    IF manual_cuts = <<>> THEN Returned(ai_data)
    ELSE LET manual_cut == Head(manual_cuts) IN
        IF ~HasKey(manual_cut, "action") THEN Raised(ai_data)
        ELSE IF manual_cut.action = "remove"
        THEN IF FilterRaises(ai_data.cuts, manual_cut) THEN Raised(ai_data)
             ELSE ApplyManualCuts(
                      [ai_data EXCEPT !.cuts = RemoveWithin(@, manual_cut)],
                      Tail(manual_cuts))
        ELSE ApplyManualCuts(ai_data, Tail(manual_cuts))

\* cut["start_time"] <= manual_cap["timestamp"] <= cut["end_time"]
ContainsTimestamp(cut, ts) ==
    /\ StrLeq(cut.start_time, ts)
    /\ StrLeq(ts, cut.end_time)

\* Mutant of FirstContaining: the loop without its break (last match wins).
LastContaining(cuts, ts) ==
    IF \E i \in 1..Len(cuts) : ContainsTimestamp(cuts[i], ts)
    THEN CHOOSE i \in 1..Len(cuts) :
             /\ ContainsTimestamp(cuts[i], ts)
             /\ \A j \in (i + 1)..Len(cuts) : ~ContainsTimestamp(cuts[j], ts)
    ELSE 0

\* Index of the cut the inner loop breaks at, 0 when it runs to the end.
FirstContaining(cuts, ts) ==
    IF \E i \in 1..Len(cuts) : ContainsTimestamp(cuts[i], ts)
    THEN CHOOSE i \in 1..Len(cuts) :
             /\ ContainsTimestamp(cuts[i], ts)
             /\ \A j \in 1..(i - 1) : ~ContainsTimestamp(cuts[j], ts)
    ELSE 0

\* Mutant of CaptionedCut: the captioned cut is made to start at the caption.
CaptionedCutTrimmed(cut, manual_cap) ==
    LET c1 == SetKey(cut, "caption", manual_cap.text)
    IN  SetKey(c1, "start_time", manual_cap.timestamp)

\* The body of the if inside the inner loop, up to where it can raise.
CaptionedCut(cut, manual_cap) ==
    LET c1 == SetKey(cut, "caption", manual_cap.text)
        c2 == IF HasKey(c1, "caption_style") THEN c1
              ELSE SetKey(c1, "caption_style", EmptyDict)
    IN  IF HasKey(manual_cap, "style")
        THEN SetKey(c2, "caption_style",
                    SetKey(c2.caption_style, "color", manual_cap.style))
        ELSE c2

\* "Add manual captions to cuts".
RECURSIVE ApplyManualCaptions(_, _)
ApplyManualCaptions(ai_data, manual_captions) ==
    IF manual_captions = <<>> THEN Returned(ai_data)
    ELSE LET manual_cap == Head(manual_captions) IN
        IF ai_data.cuts = <<>>
        THEN ApplyManualCaptions(ai_data, Tail(manual_captions))
        ELSE IF ~HasKey(manual_cap, "timestamp") THEN Raised(ai_data)
        ELSE LET i == FirstContaining(ai_data.cuts, manual_cap.timestamp) IN
            IF i = 0 THEN ApplyManualCaptions(ai_data, Tail(manual_captions))
            ELSE IF ~HasKey(manual_cap, "text") THEN Raised(ai_data)
            ELSE LET d == [ai_data EXCEPT
                              !.cuts[i] = CaptionedCut(@, manual_cap)]
                 IN  IF ~HasKey(manual_cap, "style") THEN Raised(d)
                     ELSE ApplyManualCaptions(d, Tail(manual_captions))

\* Mutant of AppendManualEffects: each effect is put in front of the list.
RECURSIVE PrependManualEffects(_, _)
PrependManualEffects(ai_data, manual_effects) ==
    IF manual_effects = <<>> THEN Returned(ai_data)
    ELSE LET manual_fx == Head(manual_effects) IN
        IF ~HasKey(manual_fx, "timestamp") \/ ~HasKey(manual_fx, "type")
        THEN Raised(ai_data)
        ELSE PrependManualEffects(
                 [ai_data EXCEPT !.visual_effects =
                     <<[start |-> manual_fx.timestamp,
                        end |-> manual_fx.timestamp,
                        type |-> manual_fx.type,
                        speed |-> "fast"]>> \o @],
                 Tail(manual_effects))

\* "Add manual effects": the loop over manual_effects.
RECURSIVE AppendManualEffects(_, _)
AppendManualEffects(ai_data, manual_effects) ==
    IF manual_effects = <<>> THEN Returned(ai_data)
    ELSE LET manual_fx == Head(manual_effects) IN
        IF ~HasKey(manual_fx, "timestamp") \/ ~HasKey(manual_fx, "type")
        THEN Raised(ai_data)
        ELSE AppendManualEffects(
                 [ai_data EXCEPT !.visual_effects =
                     Append(@, [start |-> manual_fx.timestamp,
                                end |-> manual_fx.timestamp,
                                type |-> manual_fx.type,
                                speed |-> "fast"])],
                 Tail(manual_effects))

ApplyManualEffects(ai_data, manual_effects) ==
    IF manual_effects = <<>> THEN Returned(ai_data)
    ELSE AppendManualEffects(
             IF HasKey(ai_data, "visual_effects") THEN ai_data
             ELSE SetKey(ai_data, "visual_effects", <<>>),
             manual_effects)

merge_instructions(ai_data, manual_instructions) ==
    IF DOMAIN manual_instructions = {} THEN Returned(ai_data)
    ELSE LET manual_cuts == Get(manual_instructions, "cuts", <<>>)
             manual_captions == Get(manual_instructions, "captions", <<>>)
             manual_effects == Get(manual_instructions, "effects", <<>>)
             r1 == ApplyManualCuts(ai_data, manual_cuts)
             r2 == ApplyManualCaptions(r1.data, manual_captions)
             r3 == ApplyManualEffects(r2.data, manual_effects)
         IN  IF r1.raised THEN r1
             ELSE IF r2.raised THEN r2
             ELSE r3

(***************************************************************************)
(* Background-music selection (process_video, "Select professional BGM").  *)
(***************************************************************************)
BGM_DIR == "/app/data/bgm"

\* os.path.join(BGM_DIR, name) for a plain file name.
PathJoin(dir, name) == dir \o "/" \o name

bgm_library ==
    [energetic |-> <<"energetic_pro.mp3", "Monkeys_Spinning_Monkeys.mp3",
                     "Fluffing_a_Duck.mp3", "Run_Amok.mp3", "Swing_Machine.mp3",
                     "The_Builder.mp3", "Pixel_Peeker_Polka_faster.mp3">>,
     upbeat |-> <<"upbeat_pro.mp3", "New_Friendly.mp3", "Carefree.mp3",
                  "Sneaky_Snitch.mp3", "Scheming_Weasel_faster.mp3">>,
     calm |-> <<"calm_pro.mp3", "Easy_Lemon.mp3", "Sheep_May_Safely_Graze.mp3",
                "Dreams_Become_Real.mp3", "Almost_Bliss.mp3",
                "Local_Forecast_Elevator.mp3">>,
     dramatic |-> <<"dramatic_pro.mp3", "Volatile_Reaction.mp3", "The_Complex.mp3",
                    "Hitman.mp3", "Day_of_Chaos.mp3", "Sneaky_Adventure.mp3">>,
     happy |-> <<"happy_pro.mp3", "Carefree.mp3", "Fluffing_a_Duck.mp3",
                 "Monkeys_Spinning_Monkeys.mp3">>]

mood_category_map ==
    [exciting |-> "energetic", fun |-> "energetic", peaceful |-> "calm",
     relaxing |-> "calm", serious |-> "dramatic", mysterious |-> "dramatic",
     cheerful |-> "happy", positive |-> "upbeat"]

DefaultBgm == "default_bgm.mp3"

\* mood = data.get("editing_style", {}).get("mood", "").lower()
PlanMood(data) == Lower(Get(Get(data, "editing_style", EmptyDict), "mood", ""))

\* Mutant of Category: the two substring rules in the other order.
CategoryDarkFirst(mood) ==
    LET category == Get(mood_category_map, mood, mood) IN
    IF category \in DOMAIN bgm_library THEN category
    ELSE IF Contains("sad", mood) \/ Contains("dark", mood) THEN "dramatic"
    ELSE IF Contains("calm", mood) \/ Contains("quiet", mood) THEN "calm"
    ELSE "energetic"

\* "Determine category", for the lower-cased mood.
Category(mood) ==
    LET category == Get(mood_category_map, mood, mood) IN
    IF category \in DOMAIN bgm_library THEN category
    ELSE IF Contains("calm", mood) \/ Contains("quiet", mood) THEN "calm"
    ELSE IF Contains("sad", mood) \/ Contains("dark", mood) THEN "dramatic"
    ELSE "energetic"

\* Mutant of ValidTracks: the candidates are not filtered by existence.
AvailableTracks(category, files) ==
    Get(bgm_library, category, bgm_library["energetic"])

\* "Filter to ensure file exists", then the fallback list.
ValidTracks(category, files) ==
    LET available_tracks == Get(bgm_library, category, bgm_library["energetic"])
        valid_tracks == SelectSeq(available_tracks, LAMBDA t : t \in files)
    IN  IF valid_tracks = <<>> THEN <<DefaultBgm>> ELSE valid_tracks

\* What random.choice(valid_tracks) can return.
TrackChoices(category, files) ==
    LET valid_tracks == ValidTracks(category, files)
    IN  {valid_tracks[i] : i \in 1..Len(valid_tracks)}

(***************************************************************************)
(* SpecBgm: the selection applied to bounded moods and library contents.   *)
(***************************************************************************)
\* Moods as the analysis service may word them.
MoodSet ==
    {"exciting", "fun", "peaceful", "relaxing", "serious", "mysterious",
     "cheerful", "positive",
     "energetic", "upbeat", "calm", "dramatic", "happy",
     "Exciting", "CALM", "Happy",
     "quiet", "very calm", "sad", "dark", "calm and sad", "quietly dark",
     "darkly calm", "epic", ""}

LibraryFileNames ==
    UNION {{bgm_library[c][i] : i \in 1..Len(bgm_library[c])} : c \in DOMAIN bgm_library}
        \cup {DefaultBgm}

InitBgm ==
    /\ s_pc = "input"
    /\ s_mood \in MoodSet
    /\ s_files \in SubsetsUpTo(LibraryFileNames, MaxBgmFiles)
    /\ s_category = ""
    /\ s_bgm = ""
    /\ MergeIdle
    /\ SystemOff

SelectBgm ==
    /\ s_pc = "input"
    /\ LET mood == Lower(s_mood)
           category == Category(mood)
       IN  /\ s_category' = category
           /\ \E bgm_filename \in TrackChoices(category, s_files) :
                  s_bgm' = PathJoin(BGM_DIR, bgm_filename)
    /\ s_pc' = "selected"
    /\ UNCHANGED <<s_mood, s_files, mergeVars>>
    /\ UNCHANGED <<proc, API_KEY, kbVars, remote_files, plannerVars,
                   crawlerVars>>

NextBgm == SelectBgm

SpecBgm == InitBgm /\ [][NextBgm]_vars

(***************************************************************************)
(* SpecMerge: merge_instructions applied to bounded inputs.                *)
(***************************************************************************)
CaptionStyleWhite ==
    [font |-> "sans", color |-> "white", position |-> "bottom",
     box |-> "true", background_asset |-> "simple_box"]

\* Cuts as the analysis service returns them (the prompt's schema;
\* "caption" and "caption_style" are optional in its output).
CutReaction ==
    [start_time |-> "00:00:12", end_time |-> "00:00:18",
     description |-> "reaction", filter |-> "none",
     transition_type |-> "fade", focus_point |-> "0.5",
     caption |-> "WOW!", caption_style |-> CaptionStyleWhite]
CutIntro ==
    [start_time |-> "00:00:05", end_time |-> "00:00:12",
     description |-> "intro", filter |-> "none",
     transition_type |-> "wipeleft", focus_point |-> "0.3"]
CutWide ==
    [start_time |-> "00:00:10", end_time |-> "00:00:20",
     description |-> "wide", filter |-> "none",
     transition_type |-> "slideup", focus_point |-> "0.7",
     caption |-> "Nice!", caption_style |-> CaptionStyleWhite]
CutLong ==
    [start_time |-> "00:00:05", end_time |-> "00:00:18",
     description |-> "long", filter |-> "none",
     transition_type |-> "circleopen", focus_point |-> "0.5",
     caption |-> "Hmm"]

AiCutSet == {CutReaction, CutIntro, CutWide, CutLong}

AiVisualEffect ==
    [start |-> "00:00:05", end |-> "00:00:10", type |-> "pan_left",
     speed |-> "slow"]

PlanBase(cuts, mood) ==
    [cuts |-> cuts,
     editing_style |-> [tempo |-> "fast", mood |-> mood],
     se_events |-> <<[timestamp |-> "00:00:12", type |-> "impact",
                      tag |-> "funny"]>>,
     thumbnail |-> [timestamp |-> "00:00:12", text |-> "SHOCKING!",
                    color |-> "red"]]

\* Plans with and without the "visual_effects" key.
AiPlans ==
    LET base == {PlanBase(cuts, "exciting") : cuts \in SeqUpTo(AiCutSet, MaxCuts)}
    IN  base \cup {SetKey(d, "visual_effects", <<AiVisualEffect>>) : d \in base}

RemoveWide == [action |-> "remove", start |-> "00:00:10", end |-> "00:00:20"]
RemoveIntro == [action |-> "remove", start |-> "00:00:05", end |-> "00:00:12"]
RemoveReaction == [action |-> "remove", start |-> "00:00:12", end |-> "00:00:18"]
KeepAll == [action |-> "keep", start |-> "00:00:05", end |-> "00:00:20"]
ManualCutSet == {RemoveWide, RemoveIntro, RemoveReaction, KeepAll}

CaptionLook == [timestamp |-> "00:00:12", text |-> "LOOK", style |-> "yellow"]
CaptionEnd == [timestamp |-> "00:00:20", text |-> "END", style |-> "cyan"]
ManualCaptionSet == {CaptionLook, CaptionEnd}

EffectZoom == [timestamp |-> "00:00:12", type |-> "zoom_in"]
EffectPan == [timestamp |-> "00:00:20", type |-> "pan_right"]
ManualEffectSet == {EffectZoom, EffectPan}

InstructionCounts ==
    {n \in (0..MaxInstructions) \X (0..MaxInstructions) \X (0..MaxInstructions) :
        n[1] + n[2] + n[3] <= MaxInstructions}

ManualInstructionSet ==
    UNION {[cuts : [1..n[1] -> ManualCutSet],
            captions : [1..n[2] -> ManualCaptionSet],
            effects : [1..n[3] -> ManualEffectSet]] : n \in InstructionCounts}

InitMerge ==
    /\ m_pc = "input"
    /\ m_ai \in AiPlans
    /\ m_mi \in ManualInstructionSet
    /\ m_out = Returned(m_ai)
    /\ BgmIdle
    /\ SystemOff

MergeCall ==
    /\ m_pc = "input"
    /\ m_out' = merge_instructions(m_ai, m_mi)
    /\ m_pc' = "merged"
    /\ UNCHANGED <<m_ai, m_mi, bgmVars>>
    /\ UNCHANGED <<proc, API_KEY, kbVars, remote_files, plannerVars,
                   crawlerVars>>

NextMerge == MergeCall

SpecMerge == InitMerge /\ [][NextMerge]_vars

(***************************************************************************)
(* Properties of merge_instructions (SpecMerge).                           *)
(***************************************************************************)
\* The time an "HH:MM:SS" timestamp denotes, in seconds.
Digit(s, i) == CodePoint[SubSeq(s, i, i)] - CodePoint["0"]
Seconds(ts) ==
    ((Digit(ts, 1) * 10 + Digit(ts, 2)) * 60
        + Digit(ts, 4) * 10 + Digit(ts, 5)) * 60
        + Digit(ts, 7) * 10 + Digit(ts, 8)

\* The cut's interval lies within the range of removal instruction r.
IntervalWithin(cut, r) ==
    /\ Seconds(cut.start_time) >= Seconds(r.start)
    /\ Seconds(cut.end_time) <= Seconds(r.end)

\* The two intervals share a point.
IntervalsMeet(cut, r) ==
    /\ Seconds(cut.start_time) <= Seconds(r.end)
    /\ Seconds(r.start) <= Seconds(cut.end_time)

RemovalInstructions(mi) ==
    {mi.cuts[k] : k \in {j \in 1..Len(mi.cuts) : mi.cuts[j].action = "remove"}}

\* The cuts of ai_data no removal instruction contains, in their order.
CutsOutsideRemovals(ai, mi) ==
    SelectSeq(ai.cuts,
              LAMBDA cut : ~\E r \in RemovalInstructions(mi) : IntervalWithin(cut, r))

\* A cut without the two fields a caption instruction writes.
WithoutCaption(cut) ==
    [k \in (DOMAIN cut) \ {"caption", "caption_style"} |-> cut[k]]

\* C2: the merged plan holds exactly the cuts that no removal instruction's
\* range fully contains, in their original order; each keeps every field
\* the removal step could touch, and is the very same cut when the
\* instructions carry no caption.
C2_RemovesExactlyContainedCuts ==
    m_pc = "merged" =>
        LET kept == CutsOutsideRemovals(m_ai, m_mi)
            out == m_out.data.cuts
        IN  /\ ~m_out.raised
            /\ Len(out) = Len(kept)
            /\ \A i \in 1..Len(kept) : WithoutCaption(out[i]) = WithoutCaption(kept[i])
            /\ m_mi.captions = <<>> => out = kept

\* C2 witness: one cut was removed and a cut that partially overlaps a
\* removal range was kept.
C2_Witness ==
    /\ m_pc = "merged"
    /\ Len(m_ai.cuts) = 2
    /\ Len(m_out.data.cuts) = 1
    /\ \E r \in RemovalInstructions(m_mi) :
           /\ IntervalsMeet(m_out.data.cuts[1], r)
           /\ ~IntervalWithin(m_out.data.cuts[1], r)

\* The caption instructions whose timestamp first falls in cut i of cuts.
CaptionsHitting(cuts, i, mi) ==
    {k \in 1..Len(mi.captions) :
        /\ Seconds(cuts[i].start_time) <= Seconds(mi.captions[k].timestamp)
        /\ Seconds(mi.captions[k].timestamp) <= Seconds(cuts[i].end_time)
        /\ \A j \in 1..(i - 1) :
               ~(/\ Seconds(cuts[j].start_time) <= Seconds(mi.captions[k].timestamp)
                 /\ Seconds(mi.captions[k].timestamp) <= Seconds(cuts[j].end_time))}

Max(S) == CHOOSE x \in S : \A y \in S : y <= x

\* The caption-style keys other than color.
StyleRest(cut) ==
    IF HasKey(cut, "caption_style")
    THEN [k \in (DOMAIN cut.caption_style) \ {"color"} |-> cut.caption_style[k]]
    ELSE EmptyDict

\* C3: a caption instruction writes its text and colour to the first
\* remaining cut containing its timestamp and to no other cut; a cut no
\* instruction hits is unchanged (an instruction hitting no cut changes
\* nothing).
C3_CaptionFirstContainingCut ==
    m_pc = "merged" =>
        LET kept == CutsOutsideRemovals(m_ai, m_mi)
            out == m_out.data.cuts
        IN  /\ Len(out) = Len(kept)
            /\ \A i \in 1..Len(kept) :
                 LET hits == CaptionsHitting(kept, i, m_mi) IN
                   IF hits = {} THEN out[i] = kept[i]
                   ELSE /\ HasKey(out[i], "caption")
                        /\ out[i].caption = m_mi.captions[Max(hits)].text
                        /\ HasKey(out[i], "caption_style")
                        /\ HasKey(out[i].caption_style, "color")
                        /\ out[i].caption_style.color = m_mi.captions[Max(hits)].style
                        /\ StyleRest(out[i]) = StyleRest(kept[i])
                        /\ WithoutCaption(out[i]) = WithoutCaption(kept[i])

\* C3 witness: two remaining cuts contain the timestamp; the first one got
\* the caption and the second kept its own.
C3_Witness ==
    /\ m_pc = "merged"
    /\ Len(m_mi.captions) = 1
    /\ Len(m_out.data.cuts) = 2
    /\ m_mi.cuts # <<>>
    /\ \A i \in 1..2 : ContainsTimestamp(m_out.data.cuts[i], m_mi.captions[1].timestamp)
    /\ m_out.data.cuts[1].caption = m_mi.captions[1].text
    /\ m_out.data.cuts[2] = CutsOutsideRemovals(m_ai, m_mi)[2]
    /\ HasKey(m_out.data.cuts[2], "caption")
    /\ m_out.data.cuts[2].caption # m_mi.captions[1].text

(***************************************************************************)
(* Properties of the background-music selection (SpecBgm).                *)
(***************************************************************************)
\* The keys of the explicit mood-to-category table and the category names.
TableMoods ==
    {"exciting", "fun", "peaceful", "relaxing", "serious", "mysterious",
     "cheerful", "positive"}
CategoryNames == {"energetic", "upbeat", "calm", "dramatic", "happy"}

\* The substring fallback rules, in their fixed order.
FallbackRule(mood) ==
    CASE Contains("calm", mood) \/ Contains("quiet", mood) -> "calm"
      [] ~(Contains("calm", mood) \/ Contains("quiet", mood))
            /\ (Contains("sad", mood) \/ Contains("dark", mood)) -> "dramatic"
      [] OTHER -> "energetic"

\* C4 as stated: every lower-cased mood that is not a key of the table gets
\* its category from the fallback rules.
C4_FallbackForEveryMoodOutsideTable ==
    (s_pc = "selected" /\ Lower(s_mood) \notin TableMoods)
        => s_category = FallbackRule(Lower(s_mood))

\* C4 amended: every lower-cased mood that is neither a key of the table
\* nor itself a category name gets its category from the fallback rules; a
\* mood that is a category name selects that category.
C4_FallbackOutsideTableAndCategories ==
    s_pc = "selected" =>
        LET mood == Lower(s_mood) IN
        /\ mood \notin TableMoods \cup CategoryNames => s_category = FallbackRule(mood)
        /\ mood \in CategoryNames => s_category = mood

\* C4 witness: a mood outside the table and the category names that matches
\* both substring rules was put in "calm".
C4_Witness ==
    /\ s_pc = "selected"
    /\ Lower(s_mood) \notin TableMoods \cup CategoryNames
    /\ Contains("calm", Lower(s_mood))
    /\ Contains("sad", Lower(s_mood))
    /\ s_category = "calm"

\* The candidate file names of a category.
Candidates(category) ==
    {bgm_library[category][i] : i \in 1..Len(bgm_library[category])}

\* C15: for every mood and every content of the library the selection
\* ends with a choice: the category is one of the library's, the chosen file is one of
\* its candidates that exists under BGM_DIR when one exists and
\* default_bgm.mp3 when none does, and the path is never empty.
C15_SelectionNeverFails ==
    s_pc = "selected" =>
        /\ s_category \in DOMAIN bgm_library
        /\ s_bgm # ""
        /\ LET existing == Candidates(s_category) \cap s_files IN
             IF existing # {}
             THEN \E t \in existing : s_bgm = "/app/data/bgm/" \o t
             ELSE s_bgm = "/app/data/bgm/default_bgm.mp3"

\* Only one of the category's candidates exists, beside a file of another
\* category, and it was chosen.
C15_Witness ==
    /\ s_pc = "selected"
    /\ Cardinality(Candidates(s_category) \cap s_files) = 1
    /\ Cardinality(s_files) = 2
    /\ \E t \in Candidates(s_category) \cap s_files : s_bgm = "/app/data/bgm/" \o t

(***************************************************************************)
(* The Knowledge Base as the Planner reads it (fetch_latest_style).        *)
(***************************************************************************)
\* SQLite's LIKE '%mood%': a substring match that ignores ASCII case.
Like(tags, mood) ==
    \E i \in 1..(Len(tags) - Len(mood) + 1) :
        \A k \in 1..Len(mood) :
            LowerChar(SubSeq(tags, i + k - 1, i + k - 1)) =
                LowerChar(SubSeq(mood, k, k))

\* The rows of SELECT path FROM assets WHERE type='bgm' AND tags LIKE ?
MatchingBgm(bgm_mood) ==
    {assets[i] : i \in {j \in 1..Len(assets) :
        assets[j].type = "bgm" /\ Like(assets[j].tags, bgm_mood)}}

\* The values a call of fetch_latest_style can produce.  sqlite3.connect
\* lies outside the function's try and can raise; a failing query ends in
\* the except clause; ORDER BY RANDOM() picks any matching asset.
fetch_latest_style ==
    IF ~kb_exists THEN {NoStyle}
    ELSE {[raised |-> TRUE, style |-> None, bgm_path |-> None], NoStyle}
         \cup
         IF styles = <<>> THEN {NoStyle}
         ELSE LET style == styles[Len(styles)]
                  bgm == IF style.bgm_mood # "" THEN MatchingBgm(style.bgm_mood)
                         ELSE {}
              IN  IF bgm = {}
                  THEN {[raised |-> FALSE, style |-> Some(style), bgm_path |-> None]}
                  ELSE {[raised |-> FALSE, style |-> Some(style),
                         bgm_path |-> Some(a.path)] : a \in bgm}

(***************************************************************************)
(* The Planner: VideoHandler.on_created and process_video.                 *)
(***************************************************************************)
VideoExtensions == {".mp4", ".mov", ".avi", ".mkv"}

\* Mutant of IsVideoName: the name is compared as it is written.
IsVideoNameCaseSensitive(filename) ==
    \E ext \in VideoExtensions : EndsWith(filename, ext)

\* filename.lower().endswith(('.mp4', '.mov', '.avi', '.mkv'))
IsVideoName(filename) ==
    \E ext \in VideoExtensions : EndsWith(Lower(filename), ext)

\* Mutant of StillProcessing: the loop waits for the state ACTIVE.
NotYetActive(state_name) == state_name # "ACTIVE"

\* `while video_file.state.name == "PROCESSING"` of both polling loops.
StillProcessing(state_name) == state_name = "PROCESSING"

\* Mutant of HandlerFree: an event is handed over while a call is running.
HandlerAlwaysFree == p_pc # "dead"

\* on_created runs process_video synchronously on the observer's thread: the
\* thread takes the next event only when the call before it has returned.
HandlerFree == p_pc = "idle"

\* Mutant of ClientMissing: process_video does not look at the client.
ClientAlwaysPresent == FALSE

\* `if not client` of process_video: client stays None without GEMINI_API_KEY.
ClientMissing == ~API_KEY

\* The states of an uploaded file.
JobStates == {"PROCESSING", "ACTIVE", "FAILED"}

\* Mutant of OnCreatedExcept: on_created without its except clause.
OnCreatedNoExcept == "dead"

\* Where the event-delivery thread is after the except clause of on_created
\* has logged the exception: back in the watch loop.
OnCreatedExcept == "idle"

\* process_video leaves through its except clause ("gemini_error", raise e)
\* and the exception reaches on_created.
ProcessVideoRaises(reason, run) ==
    /\ p_run' = [run EXCEPT !.error = reason]
    /\ p_raised' = p_raised + 1
    /\ p_pc' = OnCreatedExcept
    /\ IF OnCreatedExcept = "idle"
       THEN /\ p_done' = p_done + 1
            /\ p_log' = p_log \cup
                   {[event |-> "gemini_error", error |-> reason],
                    [event |-> "process_error", file_name |-> p_file, error |-> reason]}
       ELSE /\ p_done' = p_done
            /\ p_log' = p_log \cup {[event |-> "gemini_error", error |-> reason]}

\* File-system events of the watched directory.
EventSet ==
    [is_directory : BOOLEAN, file_name : {"clip1.mp4", "B.MOV", "notes.txt"}]

\* Mutant of FinalPlan: the asset path of the Style Resolver, when there is
\* one, is kept as bgm_path.
FinalPlanResolvedBgm(data, bgm_filename, filename) ==
    SetKey(SetKey(data, "bgm_path",
                  IF p_resolved.bgm_path # None THEN p_resolved.bgm_path.v
                  ELSE PathJoin(BGM_DIR, bgm_filename)),
           "original_filename", filename)

\* Mutant of FinalPlan: original_filename is not set.
FinalPlanBgmOnly(data, bgm_filename, filename) ==
    SetKey(data, "bgm_path", PathJoin(BGM_DIR, bgm_filename))

\* The plan with bgm_path and original_filename set, as json.dump writes it.
FinalPlan(data, bgm_filename, filename) ==
    SetKey(SetKey(data, "bgm_path", PathJoin(BGM_DIR, bgm_filename)),
           "original_filename", filename)

(***************************************************************************)
(* Values the two programs exchange with the analysis service, the video   *)
(* platform and the Knowledge Base.                                        *)
(***************************************************************************)
\* Style fingerprints as the analysis service words them (analyze_video's
\* prompt).
StyleCalm ==
    [cuts_per_min |-> "12.5", avg_shot_duration |-> "4.8",
     filter_usage |-> "none", transition_type |-> "cut",
     caption_style |-> "minimal", bgm_mood |-> "calm",
     se_tags |-> <<"whoosh", "none">>]
StyleSilent ==
    [cuts_per_min |-> "30.0", avg_shot_duration |-> "2.0",
     filter_usage |-> "vivid", transition_type |-> "fade",
     caption_style |-> "heavy", bgm_mood |-> "",
     se_tags |-> <<"", "pop">>]

\* The row INSERT INTO styles writes for an analysis result (se_tags is
\* stored as its JSON text; the list stands for that text here).
StyleRow(genre, style) ==
    [genre |-> genre,
     cuts_per_min |-> Get(style, "cuts_per_min", "0"),
     avg_shot_duration |-> Get(style, "avg_shot_duration", "0"),
     filter_usage |-> Get(style, "filter_usage", "none"),
     transition_type |-> Get(style, "transition_type", "cut"),
     caption_style |-> Get(style, "caption_style", "none"),
     bgm_mood |-> Get(style, "bgm_mood", "unknown"),
     se_tags |-> Get(style, "se_tags", <<>>)]

\* Top search results of the asset searches; a fully extracted search
\* result carries its webpage_url.
AssetEntrySet ==
    { [id |-> "a1", title |-> "Calm Loop", webpage_url |-> "https://youtu.be/a1"],
      [id |-> "a2", title |-> "Whoosh Pack", webpage_url |-> "https://youtu.be/a2"] }

\* The row INSERT INTO assets writes.
AssetRow(query, asset_type, entry) ==
    [type |-> asset_type, name |-> entry.title,
     path |-> "/app/data/" \o asset_type \o "/" \o entry.id,
     tags |-> query, source_url |-> entry.webpage_url]

\* Entries of the video search result; an empty one stands for None.
VideoV1 ==
    [id |-> "v1", title |-> "Morning routine",
     webpage_url |-> "https://youtu.be/v1", view_count |-> 1200]
VideoV2 ==
    [id |-> "v2", title |-> "Night walk", webpage_url |-> "https://youtu.be/v2"]
VideoV2NoUrl == [id |-> "v2", title |-> "Night walk"]
VideoEntrySet == {VideoV1, VideoV2, VideoV2NoUrl, EmptyDict}

\* The row INSERT INTO source_videos writes.
SourceVideoRow(entry, genre) ==
    [video_id |-> entry.id, title |-> entry.title, genre |-> genre,
     view_count |-> Get(entry, "view_count", 0)]

BgmQuery(bgm_mood) == "No copyright music " \o bgm_mood
SeQuery(tag) == "Sound effect " \o tag

Genre == "vlog"

\* Knowledge bases the Crawler has left behind when the Planner starts:
\* no database file; an empty one; a fingerprint with a matching bgm asset;
\* a fingerprint whose mood matches no bgm asset; a fingerprint without mood.
KBSnapshots ==
    { [exists |-> FALSE, source_videos |-> <<>>, styles |-> <<>>, assets |-> <<>>],
      [exists |-> TRUE, source_videos |-> <<SourceVideoRow(VideoV1, Genre)>>,
       styles |-> <<>>, assets |-> <<>>],
      [exists |-> TRUE, source_videos |-> <<SourceVideoRow(VideoV1, Genre)>>,
       styles |-> <<StyleRow(Genre, StyleCalm)>>,
       assets |-> << AssetRow(BgmQuery("calm"), "bgm",
                              [id |-> "a1", title |-> "Calm Loop",
                               webpage_url |-> "https://youtu.be/a1"]) >>],
      [exists |-> TRUE, source_videos |-> <<SourceVideoRow(VideoV1, Genre)>>,
       styles |-> <<StyleRow(Genre, StyleCalm)>>,
       assets |-> << AssetRow(SeQuery("whoosh"), "se",
                              [id |-> "a2", title |-> "Whoosh Pack",
                               webpage_url |-> "https://youtu.be/a2"]) >>],
      [exists |-> TRUE,
       source_videos |-> <<SourceVideoRow(VideoV1, Genre),
                           SourceVideoRow(VideoV2, Genre)>>,
       styles |-> <<StyleRow(Genre, StyleCalm), StyleRow(Genre, StyleSilent)>>,
       assets |-> <<>>] }

\* Contents of the background-music library directory.
BgmLibrarySnapshots ==
    { {}, {"energetic_pro.mp3", "Run_Amok.mp3", "calm_pro.mp3", "notes.txt"} }

\* Edit plans the analysis service returns for a video.
PlanExciting ==
    SetKey(PlanBase(<<CutIntro, CutReaction>>, "Exciting"),
           "visual_effects", <<AiVisualEffect>>)
PlanCalm == PlanBase(<<CutWide>>, "calm night")

\* response.text: a JSON document holding a plan, or text json.loads rejects.
ResponseSet ==
    { [json_ok |-> TRUE, data |-> PlanExciting],
      [json_ok |-> TRUE, data |-> PlanCalm],
      [json_ok |-> FALSE] }

\* Sidecar metadata (load_metadata); EmptyDict stands for None: no sidecar
\* file, or one that cannot be read.
MetaScript == [script |-> "intro, then the reaction"]
MetaWellFormed ==
    [manual_instructions |->
        [cuts |-> <<RemoveIntro>>, captions |-> <<CaptionLook>>,
         effects |-> <<EffectZoom>>]]
\* An effect without "type", after a removal that applies.
MetaEffectNoType ==
    [manual_instructions |->
        [cuts |-> <<RemoveIntro>>, effects |-> <<[timestamp |-> "00:00:12"]>>]]
\* A manual cut without "action".
MetaCutNoAction ==
    [manual_instructions |->
        [cuts |-> <<[start |-> "00:00:05", end |-> "00:00:12"]>>]]
\* A caption without "style" whose timestamp a cut contains.
MetaCaptionNoStyle ==
    [manual_instructions |->
        [captions |-> <<[timestamp |-> "00:00:12", text |-> "LOOK"]>>]]
\* A caption without "text" whose timestamp no cut contains.
MetaCaptionNoText ==
    [manual_instructions |->
        [captions |-> <<[timestamp |-> "00:00:25", style |-> "yellow"]>>]]

MetadataSet ==
    {EmptyDict, MetaScript, MetaWellFormed, MetaEffectNoType, MetaCutNoAction,
     MetaCaptionNoStyle, MetaCaptionNoText}

(***************************************************************************)
(* Planner actions.                                                        *)
(***************************************************************************)
InitPlanner ==
    /\ proc = "planner"
    /\ API_KEY \in BOOLEAN
    /\ \E kb \in KBSnapshots :
           /\ kb_exists = kb.exists
           /\ source_videos = kb.source_videos
           /\ styles = kb.styles
           /\ assets = kb.assets
    /\ bgm_files \in BgmLibrarySnapshots
    /\ json_files = {}
    /\ remote_files = {}
    /\ p_pc = "idle"
    /\ p_delivered = 0
    /\ p_done = 0
    /\ p_file = ""
    /\ p_meta = EmptyDict
    /\ p_job = ""
    /\ p_resolved = NoStyle
    /\ p_event = NoEvent
    /\ p_calls = 0
    /\ p_plan = EmptyDict
    /\ p_run = NewRun
    /\ p_log = {}
    /\ p_raised = 0
    /\ CrawlerIdle
    /\ MergeIdle
    /\ BgmIdle

PlannerFrame ==
    UNCHANGED <<mergeVars, bgmVars, proc, API_KEY, kbVars, bgm_files, crawlerVars>>

\* on_created for an event it ignores: a directory, or not a video name.
OnCreatedIgnored ==
    /\ HandlerFree
    /\ p_delivered < MaxEvents
    /\ \E event \in EventSet :
           /\ event.is_directory \/ ~IsVideoName(event.file_name)
           /\ p_event' = event
    /\ p_delivered' = p_delivered + 1
    /\ p_done' = p_done + 1
    /\ UNCHANGED p_calls
    /\ UNCHANGED <<json_files, remote_files, p_pc, p_file, p_meta, p_job,
                   p_resolved, p_plan, p_run, p_log, p_raised>>
    /\ PlannerFrame

\* on_created for a video file, into process_video up to the upload.
OnCreatedVideo ==
    /\ HandlerFree
    /\ p_delivered < MaxEvents
    /\ \E event \in EventSet :
        /\ ~event.is_directory
        /\ IsVideoName(event.file_name)
        /\ p_event' = event
        /\ p_calls' = p_calls + 1
        /\ p_delivered' = p_delivered + 1
        /\ p_file' = event.file_name
        /\ p_run' = NewRun
        /\ p_job' = ""
        /\ p_resolved' = NoStyle
        /\ p_plan' = EmptyDict
        /\ IF ClientMissing
           THEN \* "Client not initialized": process_video returns
                /\ p_log' =
                       {[event |-> "file_detected", file_name |-> event.file_name],
                        [event |-> "client_error"]}
                /\ p_meta' = EmptyDict
                /\ p_done' = p_done + 1
                /\ p_pc' = "idle"
           ELSE /\ p_log' =
                       {[event |-> "file_detected", file_name |-> event.file_name]}
                /\ p_meta' \in MetadataSet
                /\ p_done' = p_done
                /\ p_pc' = "upload"
    /\ UNCHANGED <<json_files, remote_files, p_raised>>
    /\ PlannerFrame

\* client.files.upload
Upload ==
    /\ p_pc = "upload"
    /\ \/ /\ p_job' \in JobStates
          /\ remote_files' = remote_files \cup {p_delivered}
          /\ p_run' = [p_run EXCEPT !.uploaded = TRUE]
          /\ p_pc' = "poll"
          /\ UNCHANGED <<p_done, p_log, p_raised>>
       \/ /\ ProcessVideoRaises("upload", p_run)
          /\ UNCHANGED <<p_job, remote_files>>
    /\ UNCHANGED <<json_files, p_delivered, p_file, p_meta, p_resolved, p_plan>>
    /\ UNCHANGED <<p_event, p_calls>>
    /\ PlannerFrame

\* One turn of the polling loop: sleep, client.files.get
Poll ==
    /\ p_pc = "poll"
    /\ StillProcessing(p_job)
    /\ \/ /\ p_job' \in JobStates
          /\ UNCHANGED <<p_pc, p_done, p_run, p_log, p_raised>>
       \/ /\ ProcessVideoRaises("poll", p_run)
          /\ UNCHANGED p_job
    /\ UNCHANGED <<json_files, remote_files, p_delivered, p_file, p_meta,
                   p_resolved, p_plan>>
    /\ UNCHANGED <<p_event, p_calls>>
    /\ PlannerFrame

\* The loop has ended in FAILED: ValueError
PollFailed ==
    /\ p_pc = "poll"
    /\ ~StillProcessing(p_job)
    /\ p_job = "FAILED"
    /\ ProcessVideoRaises("remote_failed", [p_run EXCEPT !.failed = TRUE])
    /\ UNCHANGED <<json_files, remote_files, p_delivered, p_file, p_meta, p_job,
                   p_resolved, p_plan>>
    /\ UNCHANGED <<p_event, p_calls>>
    /\ PlannerFrame

\* The loop has ended otherwise: "Fetch trending style" and the prompt.
\* The prompt reads style.get(...): with style None (or unbound, when
\* fetch_latest_style raised) building it raises.
PollReady ==
    /\ p_pc = "poll"
    /\ ~StillProcessing(p_job)
    /\ p_job # "FAILED"
    /\ \E r \in fetch_latest_style :
        /\ p_resolved' = r
        /\ IF r.style = None
           THEN ProcessVideoRaises("prompt", [p_run EXCEPT !.ready = TRUE])
           ELSE /\ p_run' = [p_run EXCEPT !.ready = TRUE]
                /\ p_pc' = "generate"
                /\ UNCHANGED <<p_done, p_log, p_raised>>
    /\ UNCHANGED <<json_files, remote_files, p_delivered, p_file, p_meta, p_job,
                   p_plan>>
    /\ UNCHANGED <<p_event, p_calls>>
    /\ PlannerFrame

\* client.models.generate_content, json.loads, the merge, the background
\* music and the write of the plan.
GenerateAndSave ==
    /\ p_pc = "generate"
    /\ LET run == [p_run EXCEPT !.generated = TRUE] IN
       \/ /\ ProcessVideoRaises("generate", run)
          /\ UNCHANGED <<json_files, p_plan>>
       \/ \E response \in ResponseSet :
            IF ~response.json_ok
            THEN /\ ProcessVideoRaises("parse", run)
                 /\ UNCHANGED <<json_files, p_plan>>
            ELSE LET manual == Get(p_meta, "manual_instructions", EmptyDict)
                     called == DOMAIN manual # {}
                     merged == IF called THEN merge_instructions(response.data, manual)
                               ELSE Returned(response.data)
                     run2 == [run EXCEPT !.parsed = TRUE, !.merge_called = called]
                 IN  IF merged.raised
                     THEN /\ ProcessVideoRaises("merge", run2)
                          /\ UNCHANGED <<json_files, p_plan>>
                     ELSE \E bgm_filename \in
                              TrackChoices(Category(PlanMood(merged.data)), bgm_files) :
                            \/ /\ json_files' = json_files \cup {p_file \o ".json"}
                               /\ p_plan' = FinalPlan(merged.data, bgm_filename, p_file)
                               /\ p_run' = [run2 EXCEPT !.written = TRUE]
                               /\ p_pc' = "cleanup"
                               /\ UNCHANGED <<p_done, p_log, p_raised>>
                            \/ /\ ProcessVideoRaises("write", run2)
                               /\ UNCHANGED <<json_files, p_plan>>
    /\ UNCHANGED <<remote_files, p_delivered, p_file, p_meta, p_job,
                   p_resolved>>
    /\ UNCHANGED <<p_event, p_calls>>
    /\ PlannerFrame

\* "Cleanup remote file": client.files.delete, its failure swallowed.
Cleanup ==
    /\ p_pc = "cleanup"
    /\ \/ remote_files' = remote_files \ {p_delivered}
       \/ UNCHANGED remote_files
    /\ p_run' = [p_run EXCEPT !.delete_attempted = TRUE]
    /\ p_pc' = "idle"
    /\ p_done' = p_done + 1
    /\ UNCHANGED <<json_files, p_delivered, p_file, p_meta, p_job, p_resolved,
                   p_plan, p_log, p_raised>>
    /\ UNCHANGED <<p_event, p_calls>>
    /\ PlannerFrame

NextPlanner ==
    \/ OnCreatedIgnored
    \/ OnCreatedVideo
    \/ Upload
    \/ Poll
    \/ PollFailed
    \/ PollReady
    \/ GenerateAndSave
    \/ Cleanup

SpecPlanner == InitPlanner /\ [][NextPlanner]_vars

(***************************************************************************)
(* Properties of the Planner (SpecPlanner).                                *)
(***************************************************************************)
\* The on_created call for the current file has returned.
CallReturned == p_pc = "idle" /\ p_done = p_delivered

\* The Style Resolver returned absent for the current file.
StyleAbsent == p_run.ready /\ p_resolved.style = None

\* C1: when the remote job is ready and the Style Resolver returns absent
\* (no Knowledge Base file, or no style fingerprint in it), process_video
\* still invokes generation; and a well-formed plan that merges and can be
\* written is persisted for the video.
C1_GeneratesWithoutKnowledgeBase ==
    (CallReturned /\ StyleAbsent) =>
        /\ p_run.generated
        /\ (p_run.parsed /\ p_run.error = "") => (p_file \o ".json") \in json_files

\* C7: a failure raised inside process_video never leaves on_created: the
\* handler is never dead, a call that raised has logged the file name and
\* the error and has returned to the observer loop, and every event
\* delivered so far has been handled once the handler is idle.
C7_FailureStaysInsideOnCreated ==
    /\ p_pc # "dead"
    /\ p_pc = "idle" => p_done = p_delivered
    /\ p_run.error # "" =>
          /\ p_pc = "idle"
          /\ [event |-> "process_error", file_name |-> p_file,
              error |-> p_run.error] \in p_log

\* An earlier call raised; the event after it was handled and its plan
\* written.
C7_Witness ==
    /\ p_raised >= 1
    /\ p_delivered >= 2
    /\ CallReturned
    /\ p_run.written
    /\ p_run.error = ""

\* The fields the merge requires of every instruction: a cut has start, end
\* and action, a caption has timestamp, text and style, an effect has
\* timestamp and type.
MissingField(instructions, fields) ==
    \E i \in 1..Len(instructions) : \E f \in fields : ~HasKey(instructions[i], f)

MalformedInstructions(manual) ==
    \/ MissingField(Get(manual, "cuts", <<>>), {"start", "end", "action"})
    \/ MissingField(Get(manual, "captions", <<>>), {"timestamp", "text", "style"})
    \/ MissingField(Get(manual, "effects", <<>>), {"timestamp", "type"})

\* C9: when the manual instructions of the video are malformed, the merge
\* fails, process_video logs and re-raises the error, and no edit-plan file
\* is written for that call.
C9_MalformedInstructionsFailTheMerge ==
    (p_run.merge_called /\ MalformedInstructions(p_meta.manual_instructions)) =>
        /\ p_run.error = "merge"
        /\ ~p_run.written
        /\ p_plan = EmptyDict
        /\ [event |-> "gemini_error", error |-> "merge"] \in p_log

(***************************************************************************)
(* The Crawler: trend_watcher/main.py, `main` with the command `crawl`.    *)
(***************************************************************************)
\* What analyze_video returns: None, or the parsed JSON document.
AnalysisNone == [json |-> "null"]
JsonObject(data) == [json |-> "object", data |-> data]
JsonArray(items) == [json |-> "array", data |-> [items |-> items]]

\* response.text of the style analysis: a fingerprint, a fingerprint without
\* mood, an empty object, an array holding a fingerprint, or text that
\* json.loads rejects.
StyleResponseSet ==
    { [json_ok |-> TRUE, value |-> JsonObject(StyleCalm)],
      [json_ok |-> TRUE, value |-> JsonObject(StyleSilent)],
      [json_ok |-> TRUE, value |-> JsonObject(EmptyDict)],
      [json_ok |-> TRUE, value |-> JsonArray(<<StyleCalm>>)],
      [json_ok |-> FALSE] }

\* `if style:`
Truthy(style) ==
    \/ style.json = "array" /\ style.data.items # <<>>
    \/ style.json = "object" /\ DOMAIN style.data # {}

\* SELECT id FROM source_videos WHERE video_id = ?
SeenVideo(video_id) ==
    \E i \in 1..Len(source_videos) : source_videos[i].video_id = video_id

\* Mutant of InsertSourceVideo: the row is not recorded.
InsertNothing(rows, row) == Returned(rows)

\* INSERT INTO source_videos; video_id is UNIQUE.
InsertSourceVideo(rows, row) ==
    IF \E i \in 1..Len(rows) : rows[i].video_id = row.video_id
    THEN Raised(rows)
    ELSE Returned(Append(rows, row))

\* Mutant of AssetExists: the look-up never finds a row.
AssetNeverExists(source_url) == FALSE

\* SELECT id FROM assets WHERE source_url = ?
AssetExists(source_url) ==
    \E i \in 1..Len(assets) : assets[i].source_url = source_url

\* Mutant of VideoProcessingFailed: the terminal state is not looked at.
VideoProcessingNeverFails(state_name) == FALSE

\* `if video_file.state.name == "FAILED"` of analyze_video
VideoProcessingFailed(state_name) == state_name = "FAILED"

\* Mutant of DeleteFailureSwallowed: a failed delete ends the analysis.
DeleteFailurePropagates(deleted) == deleted

\* analyze_video's `try: client.files.delete(...) except: pass`: whether the
\* function goes on to json.loads after the delete succeeded or failed.
DeleteFailureSwallowed(deleted) == TRUE

\* Mutant of SeQueries: the placeholder tag "none" is searched for as well.
SeQueriesWithPlaceholder(se_tags) ==
    [i \in 1..Len(SelectSeq(se_tags, LAMBDA tag : tag # "")) |->
        [query |-> SeQuery(SelectSeq(se_tags, LAMBDA tag : tag # "")[i]),
         type |-> "se"]]

\* The asset searches the crawl makes for a fingerprint, in order.
SeQueries(se_tags) ==
    [i \in 1..Len(SelectSeq(se_tags, LAMBDA tag : tag # "" /\ tag # "none")) |->
        [query |-> SeQuery(SelectSeq(se_tags,
                       LAMBDA tag : tag # "" /\ tag # "none")[i]),
         type |-> "se"]]

HarvestQueue(style) ==
    (IF Get(style, "bgm_mood", "") # ""
     THEN <<[query |-> BgmQuery(style.bgm_mood), type |-> "bgm"]>>
     ELSE <<>>) \o SeQueries(Get(style, "se_tags", <<>>))

SampleFile(entry) == entry.id \o ".mp4"

\* The row id of the entry being processed names its remote file.
RemoteHandle == Len(source_videos)

InitCrawl ==
    /\ proc = "crawler"
    /\ API_KEY \in BOOLEAN
    /\ kb_exists = FALSE
    /\ source_videos = <<>>
    /\ styles = <<>>
    /\ assets = <<>>
    /\ remote_files = {}
    /\ samples = {}
    /\ c_pc = "idle"
    /\ c_crawls = 0
    /\ c_found = 0
    /\ c_results = <<>>
    /\ c_rows0 = 0
    /\ c_remaining = 0
    /\ c_entry = EmptyDict
    /\ c_job = ""
    /\ c_style = AnalysisNone
    /\ c_queue = <<>>
    /\ c_harvest = NoHarvest
    /\ c_run = NewEntryRun
    /\ c_log = {}
    /\ dl_count = [id \in VideoIds |-> [downloads |-> 0, analyses |-> 0]]
    /\ PlannerIdle
    /\ MergeIdle
    /\ BgmIdle

CrawlFrame == UNCHANGED <<mergeVars, bgmVars, proc, API_KEY, plannerVars>>

\* The outer `except` of crawl: "Crawl failed", then conn.close().
CrawlRaises(stage) ==
    /\ c_log' = c_log \cup {[event |-> "crawl_error", stage |-> stage]}
    /\ c_pc' = "idle"

\* main: init_db, then crawl up to the search.
StartCrawl ==
    /\ c_pc = "idle"
    /\ c_crawls < MaxCrawls
    /\ c_crawls' = c_crawls + 1
    /\ kb_exists' = TRUE
    /\ c_pc' = "search"
    /\ c_found' = 0
    /\ c_results' = <<>>
    /\ c_rows0' = Len(source_videos)
    /\ c_remaining' = 0
    /\ c_entry' = EmptyDict
    /\ c_run' = NewEntryRun
    /\ c_log' = {}
    /\ c_job' = ""
    /\ c_style' = AnalysisNone
    /\ c_queue' = <<>>
    /\ UNCHANGED <<source_videos, styles, assets, remote_files, samples,
                   dl_count>>
    /\ UNCHANGED c_harvest
    /\ CrawlFrame

\* ydl.extract_info(search_query)
Search ==
    /\ c_pc = "search"
    /\ \/ /\ CrawlRaises("search")
          /\ UNCHANGED <<c_found, c_results, c_remaining>>
       \/ \E entries \in SeqUpTo(VideoEntrySet, MaxResults) :
            /\ c_results' = entries
            /\ c_found' = Len(entries)
            /\ c_remaining' = Len(entries)
            /\ c_pc' = "loop"
            /\ UNCHANGED c_log
    /\ UNCHANGED <<kbVars, remote_files, samples, c_crawls, c_rows0, c_entry,
                   c_job, c_style, c_queue, c_run, dl_count>>
    /\ UNCHANGED c_harvest
    /\ CrawlFrame

\* One turn of `for entry in result['entries']`, up to the sample download:
\* the duplicate check, the INSERT into source_videos and the URL check.
ExamineEntry ==
    /\ c_pc = "loop"
    /\ c_remaining > 0
    /\ c_remaining' = c_remaining - 1
    /\ c_results' = Tail(c_results)
    /\ c_run' = NewEntryRun
    /\ c_job' = ""
    /\ c_style' = AnalysisNone
    /\ LET entry == Head(c_results) IN
        /\ c_entry' = entry
        /\ IF entry = EmptyDict
           THEN c_log' = {} /\ UNCHANGED <<source_videos, c_pc>>
           ELSE IF SeenVideo(entry.id)
           THEN /\ c_log' = {[event |-> "skip_duplicate", video_id |-> entry.id]}
                /\ UNCHANGED <<source_videos, c_pc>>
           ELSE LET inserted == InsertSourceVideo(source_videos,
                                    SourceVideoRow(entry, Genre)) IN
                \/ /\ ~inserted.raised
                   /\ source_videos' = inserted.data
                   /\ IF HasKey(entry, "webpage_url")
                      THEN c_pc' = "download" /\ c_log' = {}
                      ELSE /\ c_log' = {[event |-> "no_url", video_id |-> entry.id]}
                           /\ UNCHANGED c_pc
                \/ /\ c_log' = {[event |-> "crawl_error", stage |-> "record"]}
                   /\ c_pc' = "idle"
                   /\ UNCHANGED source_videos
    /\ UNCHANGED <<kb_exists, styles, assets, remote_files, samples, c_crawls,
                   c_found, c_rows0, c_queue, dl_count>>
    /\ UNCHANGED c_harvest
    /\ CrawlFrame

\* ydl.download([url]), os.path.exists(filepath) and the entry of
\* analyze_video.
DownloadSample ==
    /\ c_pc = "download"
    /\ \/ /\ dl_count' = [dl_count EXCEPT ![c_entry.id].downloads = @ + 1]
          /\ CrawlRaises("download")
          /\ UNCHANGED <<samples, c_style>>
       \/ /\ dl_count' = [dl_count EXCEPT ![c_entry.id].downloads = @ + 1]
          /\ c_pc' = "loop"
          /\ UNCHANGED <<samples, c_log, c_style>>
       \/ /\ dl_count' = [dl_count EXCEPT ![c_entry.id].downloads = @ + 1,
                                          ![c_entry.id].analyses = @ + 1]
          /\ samples' = samples \cup {SampleFile(c_entry)}
          /\ c_style' = AnalysisNone
          /\ IF API_KEY
             THEN c_pc' = "upload" /\ UNCHANGED c_log
             ELSE /\ c_log' = c_log \cup {[event |-> "analysis_failed"]}
                  /\ c_pc' = "cleanup"
    /\ UNCHANGED <<kbVars, remote_files, c_crawls, c_found, c_results, c_rows0,
                   c_remaining, c_entry, c_job, c_queue, c_run>>
    /\ UNCHANGED c_harvest
    /\ CrawlFrame

\* analyze_video returns None after logging.
AnalysisFails ==
    /\ c_style' = AnalysisNone
    /\ c_log' = c_log \cup {[event |-> "analysis_failed"]}
    /\ c_pc' = "cleanup"

\* analyze_video: client.files.upload
AnalyzeUpload ==
    /\ c_pc = "upload"
    /\ \/ /\ c_job' \in JobStates
          /\ remote_files' = remote_files \cup {RemoteHandle}
          /\ c_run' = [c_run EXCEPT !.uploaded = TRUE]
          /\ c_pc' = "poll"
          /\ UNCHANGED <<c_style, c_log>>
       \/ /\ AnalysisFails
          /\ UNCHANGED <<c_job, remote_files, c_run>>
    /\ UNCHANGED <<kbVars, samples, c_crawls, c_found, c_results, c_rows0,
                   c_remaining, c_entry, c_queue, dl_count>>
    /\ UNCHANGED c_harvest
    /\ CrawlFrame

\* analyze_video: one turn of the polling loop
AnalyzePoll ==
    /\ c_pc = "poll"
    /\ StillProcessing(c_job)
    /\ \/ /\ c_job' \in JobStates
          /\ UNCHANGED <<c_pc, c_style, c_log>>
       \/ /\ AnalysisFails
          /\ UNCHANGED c_job
    /\ UNCHANGED <<kbVars, remote_files, samples, c_crawls, c_found, c_results,
                   c_rows0, c_remaining, c_entry, c_queue, c_run, dl_count>>
    /\ UNCHANGED c_harvest
    /\ CrawlFrame

\* analyze_video: the loop has ended in FAILED, "Video processing failed"
AnalyzePollFailed ==
    /\ c_pc = "poll"
    /\ ~StillProcessing(c_job)
    /\ VideoProcessingFailed(c_job)
    /\ c_run' = [c_run EXCEPT !.failed = TRUE]
    /\ AnalysisFails
    /\ UNCHANGED <<kbVars, remote_files, samples, c_crawls, c_found, c_results,
                   c_rows0, c_remaining, c_entry, c_job, c_queue, dl_count>>
    /\ UNCHANGED c_harvest
    /\ CrawlFrame

\* analyze_video: generate_content, the delete of the remote file (its
\* failure swallowed), json.loads, and `if style:` of the caller.
AnalyzeGenerate ==
    /\ c_pc = "poll"
    /\ ~StillProcessing(c_job)
    /\ ~VideoProcessingFailed(c_job)
    /\ \/ /\ c_run' = [c_run EXCEPT !.generated = TRUE]
          /\ AnalysisFails
          /\ UNCHANGED remote_files
       \/ \E response \in StyleResponseSet, deleted \in BOOLEAN :
            /\ c_run' = [c_run EXCEPT !.generated = TRUE,
                                      !.delete_attempted = TRUE,
                                      !.response_ok = response.json_ok]
            /\ remote_files' = IF deleted THEN remote_files \ {RemoteHandle}
                               ELSE remote_files
            /\ IF DeleteFailureSwallowed(deleted) /\ response.json_ok
               THEN /\ c_style' = response.value
                    /\ c_pc' = IF Truthy(response.value) THEN "persist"
                               ELSE "cleanup"
                    /\ UNCHANGED c_log
               ELSE AnalysisFails
    /\ UNCHANGED <<kbVars, samples, c_crawls, c_found, c_results, c_rows0,
                   c_remaining, c_entry, c_job, c_queue, dl_count>>
    /\ UNCHANGED c_harvest
    /\ CrawlFrame

\* INSERT INTO styles, whose arguments read style.get(...): an analysis
\* result that is not an object raises there.
PersistStyle ==
    /\ c_pc = "persist"
    /\ \/ /\ c_style.json = "object"
          /\ styles' = Append(styles, StyleRow(Genre, c_style.data))
          /\ c_run' = [c_run EXCEPT !.persisted = TRUE]
          /\ c_queue' = HarvestQueue(c_style.data)
          /\ c_pc' = "harvest"
          /\ UNCHANGED c_log
       \/ /\ CrawlRaises("persist")
          /\ UNCHANGED <<styles, c_run, c_queue>>
    /\ UNCHANGED <<kb_exists, source_videos, assets, remote_files, samples,
                   c_crawls, c_found, c_results, c_rows0, c_remaining, c_entry,
                   c_job, c_style, dl_count>>
    /\ UNCHANGED c_harvest
    /\ CrawlFrame

\* download_asset for the next query of the fingerprint.
HarvestAsset ==
    /\ c_pc = "harvest"
    /\ c_queue # <<>>
    /\ c_queue' = Tail(c_queue)
    /\ c_run' = [c_run EXCEPT !.harvests = @ + 1]
    /\ LET search == Head(c_queue) IN
       \/ \* os.makedirs, outside the try of download_asset
          /\ CrawlRaises("harvest")
          /\ c_harvest' = NoHarvest
          /\ UNCHANGED assets
       \/ \* no entries
          /\ c_harvest' = NoHarvest
          /\ UNCHANGED <<assets, c_pc, c_log>>
       \/ \* the search, the download or the INSERT raises: "Asset download failed"
          /\ c_log' = c_log \cup {[event |-> "asset_failed"]}
          /\ c_harvest' = NoHarvest
          /\ UNCHANGED <<assets, c_pc>>
       \/ \E entry \in AssetEntrySet :
            IF AssetExists(entry.webpage_url)
            THEN /\ c_log' = c_log \cup
                        {[event |-> "asset_exists", title |-> entry.title]}
                 /\ c_harvest' = [outcome |-> "exists", type |-> search.type,
                                  source_url |-> entry.webpage_url]
                 /\ UNCHANGED <<assets, c_pc>>
            ELSE /\ assets' = Append(assets,
                                  AssetRow(search.query, search.type, entry))
                 /\ c_harvest' = [outcome |-> "saved", type |-> search.type,
                                  source_url |-> entry.webpage_url]
                 /\ UNCHANGED <<c_pc, c_log>>
    /\ UNCHANGED <<kb_exists, source_videos, styles, remote_files, samples,
                   c_crawls, c_found, c_results, c_rows0, c_remaining, c_entry,
                   c_job, c_style, dl_count>>
    /\ CrawlFrame

\* Every asset search of the fingerprint has been made.
HarvestDone ==
    /\ c_pc = "harvest"
    /\ c_queue = <<>>
    /\ c_pc' = "cleanup"
    /\ c_harvest' = NoHarvest
    /\ UNCHANGED <<kbVars, remote_files, samples, c_crawls, c_found, c_results,
                   c_rows0, c_remaining, c_entry, c_job, c_style, c_queue,
                   c_run, c_log, dl_count>>
    /\ CrawlFrame

\* "Cleanup sample to save space": os.remove(filepath)
RemoveSample ==
    /\ c_pc = "cleanup"
    /\ \/ /\ samples' = samples \ {SampleFile(c_entry)}
          /\ c_pc' = "loop"
          /\ UNCHANGED c_log
       \/ /\ CrawlRaises("cleanup")
          /\ UNCHANGED samples
    /\ UNCHANGED <<kbVars, remote_files, c_crawls, c_found, c_results, c_rows0,
                   c_remaining, c_entry, c_job, c_style, c_queue, c_run,
                   dl_count>>
    /\ UNCHANGED c_harvest
    /\ CrawlFrame

\* The loop is exhausted: conn.close(), crawl returns.
EndCrawl ==
    /\ c_pc = "loop"
    /\ c_remaining = 0
    /\ c_pc' = "idle"
    /\ UNCHANGED <<kbVars, remote_files, samples, c_crawls, c_found, c_results,
                   c_rows0, c_remaining, c_entry, c_job, c_style, c_queue,
                   c_run, c_log, dl_count>>
    /\ UNCHANGED c_harvest
    /\ CrawlFrame

NextCrawl ==
    \/ StartCrawl
    \/ Search
    \/ ExamineEntry
    \/ DownloadSample
    \/ AnalyzeUpload
    \/ AnalyzePoll
    \/ AnalyzePollFailed
    \/ AnalyzeGenerate
    \/ PersistStyle
    \/ HarvestAsset
    \/ HarvestDone
    \/ RemoveSample
    \/ EndCrawl

SpecCrawl == InitCrawl /\ [][NextCrawl]_vars

(***************************************************************************)
(* Both programs: a behaviour is a run of the Planner or a run of the      *)
(* Crawler.                                                                *)
(***************************************************************************)
Init == InitPlanner \/ InitCrawl

Next == NextPlanner \/ NextCrawl

Spec == Init /\ [][Next]_vars

(***************************************************************************)
(* Termination of an analysis (SpecLive): the Planner with a key, a style  *)
(* in the Knowledge Base and a filled library, and the Crawler with a key  *)
(* up to the return of analyze_video for each entry.                       *)
(* Both programs are sequential, so a call                                 *)
(* that can go on does go on (every remote call returns): weak fairness of *)
(* each step of process_video and analyze_video.  That a remote job        *)
(* eventually leaves PROCESSING is an assumption about the analysis        *)
(* service: a turn of the polling loop that sees PROCESSING again changes  *)
(* nothing, and only the turn that sees another state is required.         *)
(***************************************************************************)
\* A turn of the Planner's polling loop sees the job out of PROCESSING.
PlannerJobLeaves == Poll /\ p_job = "PROCESSING" /\ p_job' # "PROCESSING"

\* A turn of the Crawler's polling loop sees the job out of PROCESSING.
CrawlerJobLeaves == AnalyzePoll /\ c_job = "PROCESSING" /\ c_job' # "PROCESSING"

\* Where the two calls are: every step of a call changes one of these.
callVars == <<p_pc, p_job, c_pc, c_job>>

JobsLeaveProcessing == WF_callVars(PlannerJobLeaves \/ CrawlerJobLeaves)

\* The steps of a call outside the polling loop.  A behaviour is a run of
\* one program and a call is at one place at a time, so at most one of them
\* is enabled in a state.
AnalysisStep ==
    \/ Upload
    \/ PollFailed
    \/ PollReady
    \/ GenerateAndSave
    \/ Cleanup
    \/ AnalyzeUpload
    \/ AnalyzePollFailed
    \/ AnalyzeGenerate

RemoteCallsReturn == WF_callVars(AnalysisStep)

InitLive ==
    \/ InitPlanner /\ API_KEY /\ styles # <<>> /\ assets # <<>> /\ bgm_files # {}
    \/ InitCrawl /\ API_KEY

NextLive ==
    \/ NextPlanner
    \/ StartCrawl
    \/ Search
    \/ ExamineEntry
    \/ DownloadSample
    \/ AnalyzeUpload
    \/ AnalyzePoll
    \/ AnalyzePollFailed
    \/ AnalyzeGenerate
    \/ RemoveSample
    \/ EndCrawl

SpecLive ==
    InitLive /\ [][NextLive]_vars /\ RemoteCallsReturn /\ JobsLeaveProcessing

\* Without the assumption about the analysis service.
SpecLiveNoAssumption == InitLive /\ [][NextLive]_vars /\ RemoteCallsReturn

(***************************************************************************)
(* Properties of the Crawler (SpecCrawl) and of both programs (Spec).      *)
(***************************************************************************)
NoDuplicateSourceVideos ==
    \A i, j \in 1..Len(source_videos) :
        source_videos[i].video_id = source_videos[j].video_id => i = j

NoDuplicateAssets ==
    \A i, j \in 1..Len(assets) :
        (/\ assets[i].type = assets[j].type
         /\ assets[i].source_url = assets[j].source_url) => i = j

\* C5: after any sequence of crawl invocations the Knowledge Base holds no
\* two source_videos rows with the same video id and no two assets rows with
\* the same kind and source URL.
C5_NoDuplicateRows == NoDuplicateSourceVideos /\ NoDuplicateAssets

\* A later invocation has skipped v1, which was there when it started, has
\* recorded its second result and has met an asset URL already stored.
C5_Witness ==
    /\ c_crawls >= 2
    /\ c_rows0 >= 1
    /\ source_videos[1].video_id = "v1"
    /\ c_found - c_remaining = 2
    /\ c_entry = VideoV2
    /\ Len(source_videos) = c_rows0 + 1
    /\ \E entry \in AssetEntrySet :
           [event |-> "asset_exists", title |-> entry.title] \in c_log
    /\ Len(assets) >= 1

\* C6: a crawl invocation whose search succeeded processes every search
\* result, whatever failed at a per-entry stage of an earlier result: when
\* the invocation has ended, no search result is left unexamined.
C6_EntryFailureDoesNotStopTheCrawl ==
    (c_pc = "idle" /\ [event |-> "crawl_error", stage |-> "search"] \notin c_log) =>
        c_remaining = 0

\* The stages of one entry after its row has been recorded.
EntryStages == {"download", "upload", "poll", "persist", "harvest", "cleanup"}

\* C10: a video id is downloaded at most once and analyzed at most once over
\* all invocations, and the entry being downloaded or analyzed is the one
\* whose row this turn of the loop has just inserted: an id that is present
\* when it is examined is neither downloaded nor analyzed.
C10_SeenIdsAreNeverRetried ==
    /\ \A id \in VideoIds :
          /\ dl_count[id].downloads <= 1
          /\ dl_count[id].analyses <= dl_count[id].downloads
    /\ c_pc \in EntryStages =>
          /\ Len(source_videos) > 0
          /\ source_videos[Len(source_videos)].video_id = c_entry.id
          /\ NoDuplicateSourceVideos

\* The second invocation has examined one entry and skipped it: v1, whose
\* sample the first invocation downloaded without a fingerprint coming out.
C10_Witness ==
    /\ c_crawls = 2
    /\ c_found - c_remaining = 1
    /\ c_pc = "loop"
    /\ c_entry = VideoV1
    /\ [event |-> "skip_duplicate", video_id |-> "v1"] \in c_log
    /\ dl_count["v1"].downloads = 1
    /\ styles = <<>>

\* C8: when polling ends in the terminal state FAILED, generation is not
\* invoked for that job; the Planner writes no edit plan in that call, and
\* the Crawler persists no fingerprint and harvests no asset for that entry.
C8_FailedJobProducesNothing ==
    /\ (p_run.uploaded /\ p_job = "FAILED") =>
          /\ ~p_run.generated
          /\ ~p_run.written
          /\ p_plan = EmptyDict
    /\ (c_run.uploaded /\ c_job = "FAILED") =>
          /\ ~c_run.generated
          /\ ~c_run.persisted
          /\ c_run.harvests = 0
          /\ c_style = AnalysisNone

\* The Crawler has finished an entry whose job ended in FAILED.
C8_Witness ==
    /\ c_run.failed
    /\ c_job = "FAILED"
    /\ c_pc = "loop"
    /\ SampleFile(c_entry) \notin samples

\* The invocation has ended and its search had succeeded.
CrawlEnded ==
    /\ c_pc = "idle"
    /\ c_crawls >= 1
    /\ [event |-> "crawl_error", stage |-> "search"] \notin c_log

\* The search results of the invocation that has ended which carry an id:
\* the last one the loop reached and the ones it did not reach.
ResultsWithId ==
    {entry \in {c_entry} \cup {c_results[i] : i \in 1..Len(c_results)} :
        entry # EmptyDict}

\* C11: a crawl invocation whose search succeeded (and whose INSERTs into
\* source_videos did not fail) has, when it ends, one source_videos row for
\* every video id of its search results: one new row for each id that was
\* not present, none for an id that was, whatever became of the downloads
\* and the analyses.
C11_OneRowPerNewId ==
    (CrawlEnded /\ [event |-> "crawl_error", stage |-> "record"] \notin c_log) =>
        /\ \A entry \in ResultsWithId : SeenVideo(entry.id)
        /\ NoDuplicateSourceVideos

\* C12: once the crawler has moved on from an entry or has stopped, the
\* sample file downloaded for that entry is gone, whatever the later stages
\* did (os.remove itself not failing).
C12_SampleRemovedWhateverHappens ==
    (/\ c_pc \in {"idle", "loop"}
     /\ c_entry # EmptyDict
     /\ [event |-> "crawl_error", stage |-> "cleanup"] \notin c_log) =>
        SampleFile(c_entry) \notin samples

\* analyze_video has returned for the entry.
AnalysisReturned == c_pc \notin {"upload", "poll"}

\* C13: for every analysis whose upload succeeded, the delete of the remote
\* file has been attempted by the time the Planner's call returns and by
\* the time the Crawler's analysis returns, on every path.
C13_RemoteDeleteAlwaysAttempted ==
    /\ (CallReturned /\ p_run.uploaded) => p_run.delete_attempted
    /\ (AnalysisReturned /\ c_run.uploaded) => c_run.delete_attempted

\* C14: a delete of the remote file that fails changes nothing: the Planner
\* has written its plan, keeps it and returns without error; the Crawler's
\* analysis returns the parsed document and logs no failure.
C14_DeleteFailureChangesNothing ==
    /\ (p_run.delete_attempted /\ p_delivered \in remote_files) =>
          /\ p_run.written
          /\ p_run.error = ""
          /\ p_plan # EmptyDict
          /\ (p_file \o ".json") \in json_files
          /\ CallReturned
    /\ (/\ c_run.delete_attempted
        /\ RemoteHandle \in remote_files
        /\ c_run.response_ok
        /\ AnalysisReturned) =>
          /\ c_style # AnalysisNone
          /\ [event |-> "analysis_failed"] \notin c_log

\* The delete failed, the fingerprint was returned all the same and has been
\* persisted.
C14_Witness ==
    /\ c_run.delete_attempted
    /\ RemoteHandle \in remote_files
    /\ c_run.persisted
    /\ c_style = JsonObject(StyleCalm)
    /\ c_pc = "harvest"

\* Rows of the assets table of one kind with one source URL.
AssetsOfKind(asset_type, source_url) ==
    {i \in 1..Len(assets) : /\ assets[i].type = asset_type
                            /\ assets[i].source_url = source_url}

InstantEffect(manual_fx) ==
    [start |-> manual_fx.timestamp, end |-> manual_fx.timestamp,
     type |-> manual_fx.type, speed |-> "fast"]

\* C17: the merge returns, and the visual effects of its result are the
\* visual effects of the plan before the merge, unchanged and in place,
\* followed by one instant effect (start = end = timestamp, the type of the
\* instruction, speed "fast") per manual effect, in instruction order.
C17_EffectsAppendedInOrder ==
    m_pc = "merged" =>
        LET before == Get(m_ai, "visual_effects", <<>>)
            manual_effects == Get(m_mi, "effects", <<>>)
            after == Get(m_out.data, "visual_effects", <<>>)
        IN  /\ ~m_out.raised
            /\ Len(after) = Len(before) + Len(manual_effects)
            /\ SubSeq(after, 1, Len(before)) = before
            /\ \A i \in 1..Len(manual_effects) :
                   /\ Len(before) + i <= Len(after)
                   /\ after[Len(before) + i] = InstantEffect(manual_effects[i])

\* Two different manual effects have been merged into a plan that already
\* had a visual effect.
C17_Witness ==
    /\ m_pc = "merged"
    /\ HasKey(m_ai, "visual_effects")
    /\ m_ai.visual_effects = <<AiVisualEffect>>
    /\ m_mi.effects = <<EffectPan, EffectZoom>>
    /\ HasKey(m_out.data, "visual_effects")
    /\ Len(m_out.data.visual_effects) = 3

\* The Style Resolver has been called for the current file.
StyleResolved == p_run.ready

\* C18: the Style Resolver never raises; without a Knowledge Base file or
\* without a styles row it returns absent for the fingerprint and for the
\* asset path; an asset path it returns comes with a fingerprint whose
\* background-music mood is not empty and is the path of a 'bgm' asset whose
\* tags contain that mood; a fingerprint without a matching asset comes with
\* an absent path.
C18_StyleResolverNeverRaises ==
    StyleResolved =>
        /\ ~p_resolved.raised
        /\ (~kb_exists \/ styles = <<>>) =>
               p_resolved.style = None /\ p_resolved.bgm_path = None
        /\ p_resolved.bgm_path # None =>
               /\ p_resolved.style # None
               /\ p_resolved.style.v.bgm_mood # ""
               /\ \E i \in 1..Len(assets) :
                      /\ assets[i].type = "bgm"
                      /\ assets[i].path = p_resolved.bgm_path.v
                      /\ Contains(p_resolved.style.v.bgm_mood, assets[i].tags)
        /\ (p_resolved.style # None /\ p_resolved.bgm_path = None) =>
               \/ p_resolved.style.v.bgm_mood = ""
               \/ MatchingBgm(p_resolved.style.v.bgm_mood) = {}

\* The names the watcher recognises as videos: those ending, whatever the
\* case of their letters, in one of the four extensions.
RecognisedVideo(event) ==
    /\ ~event.is_directory
    /\ \E ext \in {".mp4", ".mov", ".avi", ".mkv"} :
           EndsWith(Lower(event.file_name), ext)

\* C19: an on_created call invokes process_video exactly once when its
\* event is a non-directory with a video name (case-insensitive .mp4, .mov,
\* .avi, .mkv) and not at all for a directory or any other name; no other
\* step invokes it.
C19_OneCallPerVideoEvent ==
    [][p_calls' = p_calls +
          (IF p_delivered' # p_delivered /\ RecognisedVideo(p_event')
           THEN 1 ELSE 0)]_vars

\* An ignored event, then a video with an upper-case extension: one call.
C19_Witness ==
    /\ p_delivered = 2
    /\ p_event = [is_directory |-> FALSE, file_name |-> "B.MOV"]
    /\ p_file = "B.MOV"
    /\ p_calls = 1
    /\ p_run.uploaded

\* C20: without an API key no analysis is made and the process goes on.  In
\* the Planner no call uploads, polls, generates or writes a plan, none
\* raises, and every delivered event has been handled with the handler back
\* in the watch loop; in the Crawler no sample is uploaded or analysed, the
\* analysis result is None and no styles row is inserted for the entry.
C20_NoKeyDisablesAnalysis ==
    ~API_KEY =>
        /\ p_pc \in {"off", "idle"}
        /\ p_run = NewRun
        /\ p_raised = 0
        /\ p_done = p_delivered
        /\ json_files = {}
        /\ remote_files = {}
        /\ p_calls >= 1 => [event |-> "client_error"] \in p_log
        /\ c_pc \notin {"upload", "poll", "persist", "harvest"}
        /\ c_style = AnalysisNone
        /\ ~c_run.uploaded /\ ~c_run.generated /\ ~c_run.persisted

\* Without a key, two video events have each been given to process_video and
\* the handler is back in the watch loop.
C20_Witness ==
    /\ ~API_KEY
    /\ p_delivered = 2
    /\ p_calls = 2
    /\ p_done = 2
    /\ p_pc = "idle"
    /\ [event |-> "client_error"] \in p_log

\* Without a key, the Crawler has downloaded a sample and its analysis has
\* returned None.
C20_CrawlerCase ==
    /\ ~API_KEY
    /\ c_pc = "cleanup"
    /\ [event |-> "analysis_failed"] \in c_log
    /\ SampleFile(c_entry) \in samples

\* The current process_video call has written its plan after every earlier
\* step ended without error, under the name of the video, with the video's
\* file name in it.
PlanWrittenAfterAllSteps ==
    p_run.written =>
        /\ p_run.uploaded /\ p_run.ready /\ p_run.generated /\ p_run.parsed
        /\ ~p_run.failed
        /\ p_run.error = ""
        /\ Get(p_meta, "manual_instructions", EmptyDict) # EmptyDict
               => p_run.merge_called
        /\ (p_file \o ".json") \in json_files
        /\ HasKey(p_plan, "original_filename")
        /\ p_plan.original_filename = p_file
        /\ HasKey(p_plan, "bgm_path")

\* The plan of a call is set by the one step that writes it and is not
\* touched again before the next video event.
PlanWrittenOnce ==
    [][p_plan' # p_plan =>
          \/ p_plan = EmptyDict /\ ~p_run.written /\ p_run'.written
          \/ p_delivered' # p_delivered /\ p_plan' = EmptyDict]_vars

\* The paths of the candidate tracks of the category of the plan's mood.
MoodCategoryPaths(plan) ==
    {"/app/data/bgm/" \o t : t \in Candidates(Category(PlanMood(plan)))}

\* C21 as the specification states it: a plan is written at most once per
\* video event, as <file name>.json, only after upload, polling, generation,
\* parsing, the merge and the music selection ended without error, with
\* original_filename the file name and bgm_path a track of the category of
\* the plan's mood.
C21_PlanBgmFromMoodCategory ==
    /\ [](PlanWrittenAfterAllSteps)
    /\ PlanWrittenOnce
    /\ [](p_run.written /\ HasKey(p_plan, "bgm_path") =>
             p_plan.bgm_path \in MoodCategoryPaths(p_plan))

\* C21, amended: as above, with bgm_path a track of the category of the
\* plan's mood whose file exists in the library directory, or the fallback
\* default_bgm.mp3 when the directory holds none of the category's tracks.
C21_PlanBgmFromMoodCategoryOrFallback ==
    /\ [](PlanWrittenAfterAllSteps)
    /\ PlanWrittenOnce
    /\ [](p_run.written /\ HasKey(p_plan, "bgm_path") =>
             LET existing == {"/app/data/bgm/" \o t : t \in
                     Candidates(Category(PlanMood(p_plan))) \cap bgm_files}
             IN  IF existing # {}
                 THEN p_plan.bgm_path \in existing
                 ELSE p_plan.bgm_path = "/app/data/bgm/default_bgm.mp3")

\* Scenario A: clip1.mp4 without sidecar metadata, a plan of mood
\* "Exciting", a track of the energetic category, clip1.mp4.json written.
C21_Witness ==
    /\ p_run.written
    /\ p_file = "clip1.mp4"
    /\ p_meta = EmptyDict
    /\ PlanMood(p_plan) = "exciting"
    /\ HasKey(p_plan, "bgm_path")
    /\ p_plan.bgm_path \in {"/app/data/bgm/energetic_pro.mp3",
                              "/app/data/bgm/Run_Amok.mp3"}
    /\ "clip1.mp4.json" \in json_files

\* C22: events are processed one at a time in delivery order.  At most the
\* latest delivered event is being processed and every earlier one has ended;
\* an event is taken only when the handling of all earlier events has ended;
\* and no event is taken while the remote job of the current one is still
\* PROCESSING.
C22_OneEventAtATime ==
    /\ [](p_pc \in {"off", "idle"} => p_done = p_delivered)
    /\ [](p_pc \notin {"off", "idle", "dead"} => p_done + 1 = p_delivered)
    /\ [][p_delivered' # p_delivered =>
             /\ p_delivered' = p_delivered + 1
             /\ p_done = p_delivered
             /\ ~(p_pc = "poll" /\ p_job = "PROCESSING")]_vars
    /\ [][p_done' # p_done => p_done' = p_done + 1 /\ p_done' = p_delivered']_vars

\* The second event is being handled, its remote job still PROCESSING after
\* the first event ended with a caught failure.
C22_Witness ==
    /\ p_pc = "poll"
    /\ p_job = "PROCESSING"
    /\ p_delivered = 2
    /\ p_done = 1
    /\ p_raised = 1

\* A process_video call is running.
PlannerAnalysing == p_pc \in {"upload", "poll", "generate", "cleanup"}

\* An analyze_video call is running.
CrawlerAnalysing == c_pc \in {"upload", "poll"}

\* C23: if every remote job eventually leaves PROCESSING and every remote
\* call returns, each process_video call and each analyze_video call
\* returns, and within a call nothing is generated a second time: once
\* generation has been invoked the call is past its upload, its polling
\* loop and its generation.
C23_AnalysisTerminates ==
    /\ PlannerAnalysing ~> CallReturned
    /\ CrawlerAnalysing ~> AnalysisReturned
    /\ [](p_run.generated => p_pc \notin {"upload", "poll", "generate"})
    /\ [](c_run.generated => c_pc \notin {"upload", "poll"})

\* A call that uploaded, left its polling loop, generated and wrote its plan
\* has returned.
C23_Witness ==
    /\ CallReturned
    /\ p_run.uploaded /\ p_run.ready /\ p_run.generated /\ p_run.written
    /\ p_run.delete_attempted

\* The six fields of a cut the merge has no business with.
CutCore(cut) ==
    [k \in (DOMAIN cut) \cap {"start_time", "end_time", "description", "filter",
                               "transition_type", "focus_point"} |-> cut[k]]

\* Every cut ends no earlier than it starts.
CutsWellOrdered(cuts) ==
    \A i \in 1..Len(cuts) :
        Seconds(cuts[i].end_time) >= Seconds(cuts[i].start_time)

\* C24: every cut of the merged plan is a cut of the analysis output with
\* the same start time, end time, description, filter, transition and focus
\* point, so cuts that ended no earlier than they started still do; and
\* editing_style, se_events and thumbnail are what they were.
C24_MergeKeepsCutsAndFrame ==
    m_pc = "merged" =>
        LET before == m_ai.cuts
            after == m_out.data.cuts
        IN  /\ \A i \in 1..Len(after) :
                   \E j \in 1..Len(before) : CutCore(after[i]) = CutCore(before[j])
            /\ CutsWellOrdered(before) => CutsWellOrdered(after)
            /\ m_out.data.editing_style = m_ai.editing_style
            /\ m_out.data.se_events = m_ai.se_events
            /\ m_out.data.thumbnail = m_ai.thumbnail

\* A removal dropped one of two cuts and a caption was written to the other.
C24_Witness ==
    /\ m_pc = "merged"
    /\ Len(m_ai.cuts) = 2
    /\ Len(m_out.data.cuts) = 1
    /\ m_mi.captions # <<>>
    /\ \A j \in 1..Len(m_ai.cuts) : m_out.data.cuts[1] # m_ai.cuts[j]
    /\ CutsWellOrdered(m_ai.cuts)

\* The tags of a fingerprint that name a sound effect.
RealTags(style) ==
    SelectSeq(Get(style, "se_tags", <<>>), LAMBDA tag : tag \notin {"", "none"})

\* The harvests a fingerprint calls for: the background music of its mood,
\* then one sound effect per real tag, in list order.
ExpectedHarvests(style) ==
    LET mood == Get(style, "bgm_mood", "")
        music == IF mood = "" THEN <<>>
                 ELSE <<[query |-> "No copyright music " \o mood, type |-> "bgm"]>>
        tags == RealTags(style)
    IN  music \o [i \in 1..Len(tags) |->
                     [query |-> "Sound effect " \o tags[i], type |-> "se"]]

\* The analysis of the entry yielded a fingerprint.
HasFingerprint == c_style.json = "object" /\ DOMAIN c_style.data # {}

\* C25: a harvest is made only after the fingerprint of the entry has been
\* persisted as the latest styles row; the harvests made so far and those
\* still to make are, in order, the background-music harvest of the mood
\* (when it is not empty) followed by one sound-effect harvest per tag that
\* is neither empty nor "none"; each harvest is the next of that list and a
\* row it saves carries its query and kind; an entry that reaches its
\* cleanup after persisting has made them all; and without a fingerprint
\* there is no harvest and no styles row.
C25_HarvestFollowsPersistedFingerprint ==
    /\ [](c_pc = "harvest" \/ c_run.harvests > 0 \/ c_run.persisted =>
             /\ HasFingerprint
             /\ c_run.persisted
             /\ styles # <<>>
             /\ styles[Len(styles)].bgm_mood = Get(c_style.data, "bgm_mood", "unknown")
             /\ LET all == ExpectedHarvests(c_style.data) IN
                    /\ c_run.harvests <= Len(all)
                    /\ c_pc = "harvest" =>
                           c_queue = SubSeq(all, c_run.harvests + 1, Len(all))
                    /\ c_pc \in {"cleanup", "loop"} => c_run.harvests = Len(all))
    /\ [](~HasFingerprint => c_run.harvests = 0 /\ ~c_run.persisted)
    /\ [][c_run'.harvests > c_run.harvests =>
             /\ c_run'.harvests = c_run.harvests + 1
             /\ c_queue # <<>>
             /\ c_harvest'.outcome # "none" => c_harvest'.type = Head(c_queue).type
             /\ c_harvest'.outcome = "saved" =>
                    /\ assets' # <<>>
                    /\ assets'[Len(assets')].tags = Head(c_queue).query
                    /\ assets'[Len(assets')].type = Head(c_queue).type]_vars
    /\ [][styles' # styles => HasFingerprint /\ c_run'.persisted
                                /\ Len(styles') = Len(styles) + 1]_vars

\* The fingerprint with mood "calm" and tags "whoosh", "none" has been
\* persisted and both of its harvests, music first, have been made.
C25_Witness ==
    /\ c_pc = "cleanup"
    /\ c_run.persisted
    /\ c_style = JsonObject(StyleCalm)
    /\ c_run.harvests = 2
    /\ Len(assets) >= 2
    /\ assets[Len(assets) - 1].tags = "No copyright music calm"
    /\ assets[Len(assets)].tags = "Sound effect whoosh"

\* The paths a plan of this mood may carry: the library directory joined
\* with a candidate of the mood's category, or with the fallback.
LibraryPaths(plan) ==
    MoodCategoryPaths(plan) \cup {"/app/data/bgm/default_bgm.mp3"}

\* C26: whatever the Style Resolver returned for the video, an asset path
\* or none, the bgm_path of the written plan is a library path of the
\* plan's mood category or the fallback, and is not the resolver's path.
C26_ResolvedAssetNeverInPlan ==
    p_run.written =>
        /\ HasKey(p_plan, "bgm_path")
        /\ p_plan.bgm_path \in LibraryPaths(p_plan)
        /\ p_resolved.bgm_path # None =>
               p_plan.bgm_path # p_resolved.bgm_path.v

\* The Style Resolver returned the path of a Knowledge Base asset and the
\* plan was written with a track of the library.
C26_Witness ==
    /\ p_run.written
    /\ p_resolved.bgm_path = Some("/app/data/bgm/a1")
    /\ HasKey(p_plan, "bgm_path")
    /\ p_plan.bgm_path = "/app/data/bgm/calm_pro.mp3"

====
